---- MODULE Spec2Model ----
(***************************************************************************)
(* drltrace (clients/drltrace/drltrace.c): the library tracing client.     *)
(* The client wraps every exported routine of every module but the main    *)
(* executable at module load, unwraps them at module unload, and prints    *)
(* one line per call of a wrapped routine (lib_entry).                     *)
(*                                                                         *)
(* The module load/unload handlers are modelled one export (one iteration  *)
(* of the while loop of iterate_exports) per step, so that calls of        *)
(* wrapped routines on other threads interleave with a pass.               *)
(***************************************************************************)
EXTENDS Naturals, Sequences, FiniteSets, TLC

(* ------------------------------ bounds --------------------------------- *)
\* longest export table of the first library
MaxExports == 2
\* longest export table of the executable and of the second library, and of
\* every module in the specification that follows the calls (SpecTrace)
MinExports == 1
\* number of code addresses inside one module image
ModSize == 1

(* --------------------------- the address space ------------------------- *)
EXE  == "exe"
LIBA == "libA"
LIBB == "libB"
Libs == {LIBA, LIBB}
Modules == {EXE} \cup Libs

\* an app_pc is <<image, offset>>; offset 0 is the image's start (base)
NULL == <<"null", 0>>
ModBase(m) == <<m, 0>>
ModAddrs(m) == {<<m, o>> : o \in 1..ModSize}
CodeAddrs == UNION {ModAddrs(m) : m \in Modules}
\* an address that lies in no module image (generated code, a stack, ...)
AnonAddr == <<"anon", 1>>
ModOf(a) == a[1]

\* a const char * : NULL_STR is the null pointer
NULL_STR == "(null)"
\* the absence of a wrap for an address in drwrap's table
NoWrap == <<"nowrap", 0>>

(* --------------------------- export tables ----------------------------- *)
\* the build: #ifdef LINUX.  The platform reports indirect code symbols
\* (STT_GNU_IFUNC) on Linux only, so what another build does is what this
\* one does on export tables without them.
LINUX == TRUE

\* dr_symbol_export_t: name, is_code, is_indirect_code, addr.  The i-th
\* symbol of module m is named <<m, i>>.  STT_GNU_IFUNC symbols
\* (is_indirect_code) exist on Linux only.
SymKinds(linux) ==
    {[is_code |-> TRUE, is_indirect_code |-> FALSE],
     [is_code |-> FALSE, is_indirect_code |-> FALSE]}
    \cup (IF linux THEN {[is_code |-> FALSE, is_indirect_code |-> TRUE]} ELSE {})

SymName(m, i) == <<m, i>>

ExportTablesUpTo(m, linux, max) ==
    UNION {
      { [i \in 1..n |-> [name |-> SymName(m, i),
                         is_code |-> k[i].is_code,
                         is_indirect_code |-> k[i].is_indirect_code,
                         addr |-> a[i]]] :
          k \in [1..n -> SymKinds(linux)], a \in [1..n -> ModAddrs(m)] }
      : n \in 0..max }

ExportTables(m, linux) ==
    ExportTablesUpTo(m, linux, IF m = LIBA THEN MaxExports ELSE MinExports)

SmallExportTables(m, linux) == ExportTablesUpTo(m, linux, MinExports)

(* ------------------------------- state --------------------------------- *)
VARIABLES
    DEBUG,       \* build: IF_DEBUG / ASSERT are compiled in
    options,     \* drltrace_options_t options
    verbose,     \* static uint verbose
    exe_start,   \* static app_pc exe_start
    phase,       \* "start" (before dr_init), "running", "exited", "aborted"
    loaded,      \* modules whose load event has been delivered and that are not yet unmapped
    exports,     \* history: the export table each loaded module's load pass went over
    wrap_table,  \* drwrap: address -> user_data of the lib_entry wrap, or NoWrap
    ev,          \* the module event handler in progress, or the last one that returned
    installed,   \* history: per module, the <<name, func>> wrapped by its last load pass
    last,        \* history: the last lib_entry invocation since the last handler step
    cyc          \* history: how far a load, unload, load, unload sequence of LIBA has come

vars == <<DEBUG, options, verbose, exe_start, phase, loaded, exports,
          wrap_table, ev, installed, last, cyc>>

build == <<DEBUG>>
config == <<options, verbose, exe_start>>

NoEvent == [pc |-> "none", add |-> FALSE, mod |-> EXE, table |-> <<>>, idx |-> 1,
            log |-> <<>>, before |-> [a \in CodeAddrs |-> NoWrap], same |-> TRUE,
            skipped |-> FALSE]

NoCall == [called |-> FALSE]

NoCycle == [n |-> 0, table |-> <<>>, h0 |-> {}, h1 |-> {}, h3 |-> {}, h4 |-> {}]

(* ------------------------------ options_init --------------------------- *)
\* the option strings dr_get_options may hand over, as their tokens
OptionStrings ==
    { <<>>,
      <<"-only_from_app">>,
      <<"-logdir", "d", "-verbose", "1">> }

\* dr_sscanf(token, "%u", &verbose)
ScanUint(tok) == IF tok = "0" THEN 0 ELSE 1

RECURSIVE options_init_from(_, _, _)
options_init_from(toks, opts, verb) ==
    IF toks = <<>> THEN [options |-> opts, verbose |-> verb]
    ELSE LET token == Head(toks)
             rest  == Tail(toks)
         IN  IF token = "-logdir" THEN
                 IF rest = <<>> THEN [options |-> opts, verbose |-> verb]
                 ELSE options_init_from(Tail(rest),
                                        [opts EXCEPT !.logdir = Head(rest)], verb)
             ELSE IF token = "-only_from_app" THEN
                 options_init_from(rest, [opts EXCEPT !.only_from_app = TRUE], verb)
             ELSE IF token = "-verbose" THEN
                 IF rest = <<>> THEN [options |-> opts, verbose |-> verb]
                 ELSE options_init_from(Tail(rest), opts, ScanUint(Head(rest)))
             ELSE options_init_from(rest, opts, verb)

options_init(opstr) ==
    options_init_from(opstr, [logdir |-> "", only_from_app |-> FALSE], 0)

(* ------------------------------- platform ------------------------------ *)
\* dr_get_main_module()->start
MainModuleStart == ModBase(EXE)

\* the executable image is mapped for the whole run; a library is mapped from
\* its load event to the return of its unload event
Mapped(m, ld) == m = EXE \/ m \in ld

NoMod == "nomod"
\* dr_lookup_module(pc): the mapped module that contains pc, or NULL
dr_lookup_module(pc, ld) ==
    IF pc \in CodeAddrs /\ Mapped(ModOf(pc), ld) THEN ModOf(pc) ELSE NoMod

\* dr_module_preferred_name(mod): a name, or NULL when the image has none
PreferredNames(m) == {m, NULL_STR}

\* drwrap: one wrap per (func, pre callback): a second request for a wrapped
\* func fails, and so does a removal of a wrap that is not there
drwrap_wrap_ok(tbl, func) == tbl[func] = NoWrap
drwrap_wrap_ex(tbl, func, user_data) ==
    IF drwrap_wrap_ok(tbl, func) THEN [tbl EXCEPT ![func] = user_data] ELSE tbl
drwrap_unwrap_ok(tbl, func) == tbl[func] # NoWrap
drwrap_unwrap(tbl, func) ==
    IF drwrap_unwrap_ok(tbl, func) THEN [tbl EXCEPT ![func] = NoWrap] ELSE tbl

\* what the guarded call of an indirect export can do: fault, or return an address
TrampolineOutcomes ==
    {[fault |-> TRUE, ret |-> NULL]}
    \cup {[fault |-> FALSE, ret |-> a] :
             a \in UNION {ModAddrs(m) : m \in Libs} \cup {NULL}}

\* what the guarded drwrap_get_retaddr can do
RetaddrOutcomes ==
    {[fault |-> TRUE, ret |-> NULL]}
    \cup {[fault |-> FALSE, ret |-> a] : a \in CodeAddrs \cup {NULL, AnonAddr}}

(* -------------------------------- Init --------------------------------- *)
Init ==
    /\ DEBUG \in BOOLEAN
    /\ options = [logdir |-> "", only_from_app |-> FALSE]
    /\ verbose = 0
    /\ exe_start = NULL
    /\ phase = "start"
    /\ loaded = {}
    /\ exports = [m \in Modules |-> <<>>]
    /\ wrap_table = [a \in CodeAddrs |-> NoWrap]
    /\ ev = NoEvent
    /\ installed = [m \in Modules |-> {}]
    /\ last = NoCall
    /\ cyc = NoCycle

(* ------------------------------- dr_init ------------------------------- *)
dr_init(opstr) ==
    /\ phase = "start"
    /\ LET o == options_init(opstr)
       IN  /\ options' = o.options
           /\ verbose' = o.verbose
    /\ exe_start' = MainModuleStart
    /\ phase' = "running"
    /\ UNCHANGED <<build, loaded, exports, wrap_table, ev, installed, last, cyc>>

IsPrefix(s, t) == Len(s) <= Len(t) /\ s = SubSeq(t, 1, Len(s))

\* the export tables the iterator may find at unload for a module loaded with t
TablesAtUnload(tables, t) ==
    {u \in tables : IsPrefix(u, t) \/ IsPrefix(t, u)}

(* --------------------------- iterate_exports --------------------------- *)
\* mutant: every symbol is taken for code
ResolveFunc_AnySymbol(sym, linux, o) ==
    IF linux /\ sym.is_indirect_code THEN
        (IF o.fault THEN NULL ELSE o.ret)
    ELSE sym.addr

\* mutant: the trampoline is invoked for a symbol of either code kind
InvokesTrampoline_CodeToo(sym, linux) ==
    linux /\ (sym.is_code \/ sym.is_indirect_code)

\* the guarded call (*indir)() is made for this symbol
InvokesTrampoline(sym, linux) ==
    ~sym.is_code /\ linux /\ sym.is_indirect_code

NotInvoked == [fault |-> FALSE, ret |-> NULL]

\* mutant: a faulting trampoline leaves the address of the stub in func
ResolveFunc_StubOnFault(sym, linux, o) ==
    IF sym.is_code THEN sym.addr
    ELSE IF linux /\ sym.is_indirect_code THEN
        (IF o.fault THEN sym.addr ELSE o.ret)
    ELSE NULL

\* app_pc func after the if / else if of one loop iteration; o is what the
\* guarded call did (EXCEPT sets func = NULL)
ResolveFunc(sym, linux, o) ==
    IF sym.is_code THEN sym.addr
    ELSE IF linux /\ sym.is_indirect_code THEN
        (IF o.fault THEN NULL ELSE o.ret)
    ELSE NULL

\* mutant: the add flag is ignored
RequestKind_AlwaysWrap(func, add) ==
    IF func = NULL THEN "none" ELSE "wrap"

\* if (func != NULL) { if (add) drwrap_wrap_ex(...) else drwrap_unwrap(...) }
RequestKind(func, add) ==
    IF func = NULL THEN "none" ELSE IF add THEN "wrap" ELSE "unwrap"

\* mutant: the assertion is compiled out of every build
AssertFails_Never(debug, ok) == FALSE

\* ASSERT(ok, ...): compiled in with DEBUG only
AssertFails(debug, ok) == debug /\ ~ok

\* mutant: the executable is not told apart
IsTraced_Always(start, exe) == TRUE

\* if (info->start != exe_start)
IsTraced(start, exe) == start # exe

\* one iteration of the while loop
iterate_exports_next(o) ==
    /\ phase = "running"
    /\ ev.pc = "iter"
    /\ ev.idx <= Len(ev.table)
    /\ LET sym  == ev.table[ev.idx]
           inv  == InvokesTrampoline(sym, LINUX)
           func == ResolveFunc(sym, LINUX, o)
           req  == RequestKind(func, ev.add)
           ok   == CASE req = "wrap"   -> drwrap_wrap_ok(wrap_table, func)
                     [] req = "unwrap" -> drwrap_unwrap_ok(wrap_table, func)
                     [] OTHER          -> TRUE
           rec  == [name |-> sym.name, invoked |-> inv, fault |-> inv /\ o.fault,
                    out |-> o, func |-> func, req |-> req, ok |-> ok]
           dead == req # "none" /\ AssertFails(DEBUG, ok)
       IN  /\ o \in (IF inv THEN TrampolineOutcomes ELSE {NotInvoked})
           /\ wrap_table' =
                CASE req = "wrap"   -> drwrap_wrap_ex(wrap_table, func, sym.name)
                  [] req = "unwrap" -> drwrap_unwrap(wrap_table, func)
                  [] OTHER          -> wrap_table
           /\ installed' =
                IF req = "wrap" /\ ok
                THEN [installed EXCEPT ![ev.mod] = @ \cup {<<sym.name, func>>}]
                ELSE installed
           /\ ev' = [ev EXCEPT !.log = Append(@, rec),
                               !.idx = @ + 1,
                               !.pc = IF dead THEN "aborted" ELSE "iter"]
           /\ phase' = IF dead THEN "aborted" ELSE phase
    /\ last' = NoCall
    /\ UNCHANGED <<build, config, loaded, exports, cyc>>

\* the loop ends: dr_symbol_export_iterator_stop, and iterate_exports returns
iterate_exports_stop ==
    /\ phase = "running"
    /\ ev.pc = "iter"
    /\ ev.idx > Len(ev.table)
    /\ ev' = [ev EXCEPT !.pc = "returned"]
    /\ last' = NoCall
    /\ UNCHANGED <<build, config, loaded, exports, wrap_table, installed, phase, cyc>>

\* the call (*indir)() of an indirect export does not return: DR_TRY_EXCEPT
\* catches a fault, and nothing bounds the time the call takes
iterate_exports_loop ==
    /\ phase = "running"
    /\ ev.pc = "iter"
    /\ ev.idx <= Len(ev.table)
    /\ InvokesTrampoline(ev.table[ev.idx], LINUX)
    /\ ev' = [ev EXCEPT !.pc = "looping"]
    /\ last' = NoCall
    /\ UNCHANGED <<build, config, loaded, exports, wrap_table, installed, phase, cyc>>

(* ------------------- event_module_load / event_module_unload ----------- *)
event_module_load(m, tbl) ==
    /\ phase = "running"
    /\ ev.pc = "none"
    /\ m \notin loaded
    /\ LET traced == IsTraced(ModBase(m), exe_start)
       IN  /\ ev' = [pc |-> IF traced THEN "iter" ELSE "returned",
                     add |-> TRUE, mod |-> m, table |-> tbl, idx |-> 1, log |-> <<>>,
                     before |-> wrap_table, same |-> TRUE, skipped |-> ~traced]
           /\ exports' = IF traced THEN [exports EXCEPT ![m] = tbl] ELSE exports
    /\ loaded' = loaded \cup {m}
    /\ installed' = [installed EXCEPT ![m] = {}]
    /\ last' = NoCall
    /\ UNCHANGED <<build, config, wrap_table, phase, cyc>>

\* tbl is the export table as the iterator reads it now: the one seen at
\* load, or one with exports removed from or added to its end
event_module_unload(m, tbl) ==
    /\ phase = "running"
    /\ ev.pc = "none"
    /\ m \in loaded
    /\ LET traced == IsTraced(ModBase(m), exe_start)
       IN  ev' = [pc |-> IF traced THEN "iter" ELSE "returned",
                  add |-> FALSE, mod |-> m, table |-> tbl, idx |-> 1, log |-> <<>>,
                  before |-> wrap_table, same |-> (tbl = exports[m]),
                  skipped |-> ~traced]
    /\ last' = NoCall
    /\ UNCHANGED <<build, config, loaded, exports, wrap_table, installed, phase, cyc>>

\* the addresses some wrap is installed at
HookedIn(tbl) == {a \in CodeAddrs : tbl[a] # NoWrap}

\* history: the sequence load, unload, load, unload of LIBA with one export
\* table, with the hook sets before the first load (h0) and after the first
\* load (h1), the second load (h3) and the second unload (h4)
CycleAfter(c, e, tbl) ==
    IF e.mod # LIBA THEN NoCycle
    ELSE IF e.add THEN
        IF c.n = 2 /\ e.table = c.table
        THEN [c EXCEPT !.n = 3, !.h3 = HookedIn(tbl)]
        ELSE [n |-> 1, table |-> e.table, h0 |-> HookedIn(e.before),
              h1 |-> HookedIn(tbl), h3 |-> {}, h4 |-> {}]
    ELSE IF c.n = 1 /\ e.same THEN [c EXCEPT !.n = 2]
    ELSE IF c.n = 3 /\ e.same THEN [c EXCEPT !.n = 4, !.h4 = HookedIn(tbl)]
    ELSE NoCycle

\* the handler returns to the platform, which unmaps the module after an
\* unload event
event_return(track) ==
    /\ phase = "running"
    /\ ev.pc = "returned"
    /\ ev' = NoEvent
    /\ loaded' = IF ev.add THEN loaded ELSE loaded \ {ev.mod}
    /\ exports' = IF ev.add THEN exports ELSE [exports EXCEPT ![ev.mod] = <<>>]
    /\ last' = NoCall
    /\ cyc' = IF track THEN CycleAfter(cyc, ev, wrap_table) ELSE cyc
    /\ UNCHANGED <<build, config, wrap_table, installed, phase>>

(* ------------------------------ lib_entry ------------------------------ *)
STDERR_PREFIX == "~~~~ "

\* mutant: the else branch of if (retaddr != NULL) does not return
PassesFilter_NullAdmits(only_from_app, ro, ld, exe) ==
    IF only_from_app THEN
        LET retaddr == IF ro.fault THEN NULL ELSE ro.ret
        IN  IF retaddr # NULL THEN
                LET mod == dr_lookup_module(retaddr, ld)
                IN  IF mod # NoMod THEN ModBase(mod) = exe ELSE TRUE
            ELSE TRUE
    ELSE TRUE

\* the origin filter (lines 95-120): TRUE when lib_entry goes on to print
PassesFilter(only_from_app, ro, ld, exe) ==
    IF only_from_app THEN
        LET retaddr == IF ro.fault THEN NULL ELSE ro.ret
        IN  IF retaddr # NULL THEN
                LET mod == dr_lookup_module(retaddr, ld)
                IN  IF mod # NoMod THEN ModBase(mod) = exe ELSE TRUE
            ELSE FALSE
    ELSE TRUE

\* the four %s of the dr_fprintf of lines 127-129
TraceLine(modname, name) ==
    <<STDERR_PREFIX,
      IF modname = NULL_STR THEN "" ELSE modname,
      IF modname = NULL_STR THEN "" ELSE "!",
      name>>

\* mutant: nothing is printed when the lookup of func finds no module
lib_entry_lines_NeedsModule(name, func, ro, pn, ld, only_from_app, exe) ==
    IF ~PassesFilter(only_from_app, ro, ld, exe) THEN <<>>
    ELSE LET mod == dr_lookup_module(func, ld)
         IN  IF mod = NoMod THEN <<>> ELSE <<TraceLine(pn, name)>>

\* the lines one invocation writes; pn is what dr_module_preferred_name returns
\* when the lookup of func finds a module
lib_entry_lines(name, func, ro, pn, ld, only_from_app, exe) ==
    IF ~PassesFilter(only_from_app, ro, ld, exe) THEN <<>>
    ELSE LET mod == dr_lookup_module(func, ld)
             modname == IF mod # NoMod THEN pn ELSE NULL_STR
         IN  <<TraceLine(modname, name)>>

\* drwrap calls lib_entry at the entry of func when a wrap is installed for
\* it, with the wrap's user_data: the lines a call of func writes
CallLines(tbl, func, ro, pn, ld, only_from_app, exe) ==
    IF tbl[func] = NoWrap THEN <<>>
    ELSE lib_entry_lines(tbl[func], func, ro, pn, ld, only_from_app, exe)

\* a thread enters a wrapped routine: drwrap calls lib_entry with the wrap's
\* user_data
lib_entry(func, ro, pn) ==
    /\ phase = "running"
    /\ wrap_table[func] # NoWrap
    /\ LET mod == dr_lookup_module(func, loaded)
       IN  /\ pn \in (IF mod # NoMod THEN PreferredNames(mod) ELSE {NULL_STR})
           /\ last' = [called |-> TRUE, func |-> func, name |-> wrap_table[func],
                       ro |-> ro, funcmod |-> mod,
                       retmod |-> IF ro.fault THEN NoMod
                                  ELSE dr_lookup_module(ro.ret, loaded),
                       lines |-> lib_entry_lines(wrap_table[func], func, ro, pn,
                                                 loaded, options.only_from_app,
                                                 exe_start)]
    /\ UNCHANGED <<build, config, phase, loaded, exports, wrap_table, ev, installed, cyc>>

(* ------------------------------ event_fork ----------------------------- *)
\* mutant: the child process gets a log directory of its own
event_fork_NewLogdir ==
    /\ phase = "running"
    /\ options' = [options EXCEPT !.logdir = "child"]
    /\ last' = NoCall
    /\ UNCHANGED <<build, verbose, exe_start, phase, loaded, exports, wrap_table,
                   ev, installed, cyc>>

\* #ifndef WINDOWS: the fork event, with an empty body
event_fork ==
    /\ phase = "running"
    /\ last' = NoCall
    /\ UNCHANGED <<build, config, phase, loaded, exports, wrap_table, ev,
                   installed, cyc>>

(* ------------------------------ event_exit ----------------------------- *)
\* drwrap_exit frees the wrap table
event_exit ==
    /\ phase = "running"
    /\ ev.pc = "none"
    /\ phase' = "exited"
    /\ wrap_table' = [a \in CodeAddrs |-> NoWrap]
    /\ ev' = NoEvent
    /\ last' = NoCall
    /\ UNCHANGED <<build, config, loaded, exports, installed, cyc>>

(* ------------------------------- Next ---------------------------------- *)
\* a pass over an export table
Pass ==
    \/ \E o \in TrampolineOutcomes \cup {NotInvoked} : iterate_exports_next(o)
    \/ iterate_exports_stop

\* the module events of the executable and the two libraries; the iterator
\* may find another export table at unload
Events ==
    \/ \E m \in Modules : \E tbl \in ExportTables(m, LINUX) : event_module_load(m, tbl)
    \/ \E m \in Modules :
         \E tbl \in TablesAtUnload(ExportTables(m, LINUX), exports[m]) :
           event_module_unload(m, tbl)

\* the module events of the executable and one library, over the short
\* export tables; the iterator finds at unload the table it found at load
SmallEvents ==
    \/ \E m \in {EXE, LIBA} : \E tbl \in SmallExportTables(m, LINUX) :
         event_module_load(m, tbl)
    \/ \E m \in {EXE, LIBA} : event_module_unload(m, exports[m])

Calls ==
    \E func \in CodeAddrs : \E ro \in RetaddrOutcomes :
      \E pn \in Modules \cup {NULL_STR} : lib_entry(func, ro, pn)

\* the hook lifecycle: lib_entry changes none of the client's variables, so
\* the calls are left out, and with them the options only lib_entry reads
Next ==
    \/ dr_init(<<>>)
    \/ Events
    \/ Pass
    \/ event_return(FALSE)
    \/ event_exit

Spec == Init /\ [][Next]_vars

\* the calls of wrapped routines, interleaved with the module events
NextTrace ==
    \/ \E opstr \in OptionStrings : dr_init(opstr)
    \/ SmallEvents
    \/ Pass
    \/ event_return(FALSE)
    \/ event_exit
    \/ event_fork
    \/ Calls

SpecTrace == Init /\ [][NextTrace]_vars

\* the hook lifecycle of one library, with the history of its load, unload,
\* load, unload sequences
NextCycle ==
    \/ dr_init(<<>>)
    \/ SmallEvents
    \/ Pass
    \/ event_return(TRUE)
    \/ event_exit

SpecCycle == Init /\ [][NextCycle]_vars

\* the module events of the two libraries, over the short export tables; the
\* iterator finds at unload the table it found at load
LibEvents ==
    \/ \E m \in Libs : \E tbl \in SmallExportTables(m, LINUX) :
         event_module_load(m, tbl)
    \/ \E m \in Libs : event_module_unload(m, exports[m])

\* the calls of wrapped routines, interleaved with the module events of two
\* libraries
NextLibs ==
    \/ \E opstr \in {<<>>, <<"-only_from_app">>} : dr_init(opstr)
    \/ LibEvents
    \/ Pass
    \/ event_return(FALSE)
    \/ event_exit
    \/ event_fork
    \/ Calls

SpecLibs == Init /\ [][NextLibs]_vars

\* the hook lifecycle of one library with trampolines that may not return;
\* the thread that runs a handler keeps running
NextLive ==
    \/ dr_init(<<>>)
    \/ SmallEvents
    \/ Pass
    \/ iterate_exports_loop
    \/ event_return(FALSE)
    \/ event_exit

SpecLive ==
    Init /\ [][NextLive]_vars /\ WF_vars(Pass) /\ WF_vars(event_return(FALSE))

(* ============================== the claims ============================== *)
\* the addresses some wrap is installed at
Hooked == HookedIn(wrap_table)

\* a pass of a module other than the executable, and its return
InLoad == ev.pc # "none" /\ ev.add /\ ModBase(ev.mod) # exe_start
InUnload == ev.pc # "none" /\ ~ev.add /\ ModBase(ev.mod) # exe_start
LoadDone == InLoad /\ ev.pc = "returned"
UnloadDone == InUnload /\ ev.pc = "returned"

\* the exports the pass has gone over (all of them once it has returned)
Visited == 1..(ev.idx - 1)

\* an export of the table seen at load that the unload pass met again
MetAgain(i) ==
    /\ i <= Len(exports[ev.mod])
    /\ ev.table[i] = exports[ev.mod][i]

\* C1: for a module that is not the executable, every direct-code export the
\* load pass has gone over (every one, once the load event has returned) has
\* exactly one wrap at its address, and no wrap is left at the address of a
\* direct-code export the matching unload pass has gone over (of any, once
\* the unload event has returned), also when two export names share one
\* address.
C1_DirectExportsHooked ==
    /\ LoadDone => ev.idx = Len(ev.table) + 1
    /\ UnloadDone => ev.idx = Len(ev.table) + 1
    /\ InLoad =>
         \A i \in Visited :
           ev.table[i].is_code =>
             Cardinality({a \in Hooked : a = ev.table[i].addr}) = 1
    /\ InUnload =>
         \A i \in Visited :
           (ev.table[i].is_code /\ MetAgain(i)) =>
             Cardinality({a \in Hooked : a = ev.table[i].addr}) = 0

\* a table with two direct-code exports at one address has been loaded and
\* unloaded again
C1_Witness ==
    /\ UnloadDone
    /\ ev.same
    /\ Len(ev.table) = 2
    /\ ev.table[1].is_code /\ ev.table[2].is_code
    /\ ev.table[1].addr = ev.table[2].addr
    /\ Len(ev.log) = 2 /\ ev.log[1].req = "unwrap" /\ ev.log[1].ok

\* C2: no wrap is ever installed for an export of the main executable: a
\* load or unload event of the module whose base is exe_start returns without
\* one pass step and without a wrap or unwrap request.
C2_ExecutableNeverHooked ==
    /\ \A a \in Hooked : wrap_table[a][1] # EXE
    /\ (phase # "start" /\ ev.pc # "none" /\ ModBase(ev.mod) = exe_start) =>
         /\ ev.pc = "returned"
         /\ ev.log = <<>>
         /\ wrap_table = ev.before

\* the unload event of the executable, with a direct-code export, has returned
C2_Witness ==
    /\ ev.pc = "returned"
    /\ ~ev.add
    /\ ModBase(ev.mod) = exe_start
    /\ Len(ev.table) >= 1
    /\ ev.table[1].is_code

\* the unwrap requests the pass has made for the export name at func
RemoveRequests(name, func) ==
    {i \in DOMAIN ev.log :
       ev.log[i].req = "unwrap" /\ ev.log[i].name = name /\ ev.log[i].func = func}

\* C3: every export, direct or indirect, that had a wrap installed by the
\* load pass of its module has exactly one matching unwrap request by the
\* time the unload event of the module (over the same export table) has
\* returned, and no wrap is left at its address.
C3_EveryInstalledHookRemoved ==
    (UnloadDone /\ ev.same) =>
      \A e \in installed[ev.mod] :
        /\ Cardinality(RemoveRequests(e[1], e[2])) = 1
        /\ wrap_table[e[2]] = NoWrap

\* C4: with only_from_app, a call whose return address is read and lies in
\* the module at exe_start prints one line; a call whose return address lies
\* in another module, or cannot be read or is null, prints none.
C4_OnlyFromAppFilter ==
    (last.called /\ options.only_from_app) =>
      LET read == ~last.ro.fault /\ last.ro.ret # NULL
      IN  /\ (read /\ last.retmod # NoMod /\ ModBase(last.retmod) = exe_start)
                => Len(last.lines) = 1
          /\ (read /\ last.retmod # NoMod /\ ModBase(last.retmod) # exe_start)
                => Len(last.lines) = 0
          /\ ~read => Len(last.lines) = 0

\* with only_from_app, a call that returns into a library has been suppressed
C4_Witness ==
    /\ last.called
    /\ options.only_from_app
    /\ ~last.ro.fault
    /\ last.retmod = LIBA
    /\ last.lines = <<>>

\* C5: with only_from_app, a call whose return address is read but lies in
\* no module prints no line.
C5_NoModuleSuppressed ==
    (last.called /\ options.only_from_app /\ ~last.ro.fault
       /\ last.ro.ret # NULL /\ last.retmod = NoMod)
      => last.lines = <<>>

\* C6: without only_from_app every invocation of lib_entry prints exactly one
\* line, whatever the return address; when the lookup of the called address
\* finds no module the line has no module name and no separator.
C6_EveryCallTraced ==
    (last.called /\ ~options.only_from_app) =>
      /\ Len(last.lines) = 1
      /\ last.lines[1][1] = STDERR_PREFIX
      /\ last.lines[1][4] = last.name
      /\ last.funcmod = NoMod => (last.lines[1][2] = "" /\ last.lines[1][3] = "")

\* without only_from_app, a call of a wrapped address of an unmapped module,
\* with a return address that could not be read, has printed its line
C6_Witness ==
    /\ last.called
    /\ ~options.only_from_app
    /\ last.funcmod = NoMod
    /\ last.ro.fault
    /\ Len(last.lines) = 1

\* the wrap requests of the records of a pass, made one after the other
RECURSIVE Replay(_, _)
Replay(recs, tbl) ==
    IF recs = <<>> THEN tbl
    ELSE LET r == Head(recs)
         IN  Replay(Tail(recs),
                    IF r.func = NULL THEN tbl
                    ELSE drwrap_wrap_ex(tbl, r.func, r.name))

NotFaulted(r) == ~r.fault

\* C7: in a load pass an indirect export whose trampoline faults gets no
\* wrap and does not end the pass: the wraps are those the pass would have
\* made over the table without the faulting exports, every direct-code export
\* gone over has its wrap request, the pass goes over the whole table, and no
\* other address changes.
C7_FaultIsLocal ==
    InLoad =>
      /\ \A i \in DOMAIN ev.log :
           ev.log[i].fault => (ev.log[i].func = NULL /\ ev.log[i].req = "none")
      /\ ev.pc = "aborted" => ~ev.log[Len(ev.log)].fault
      /\ wrap_table = Replay(SelectSeq(ev.log, NotFaulted), ev.before)
      /\ \A i \in DOMAIN ev.log :
           ev.table[i].is_code =>
             (ev.log[i].req = "wrap" /\ ev.log[i].func = ev.table[i].addr)
      /\ ev.pc = "returned" => Len(ev.log) = Len(ev.table)

\* a load pass has returned whose first export faulted and whose second one
\* was wrapped, with the wrap of the other library in place
C7_Witness ==
    /\ LoadDone
    /\ ev.mod = LIBA
    /\ Len(ev.log) = 2
    /\ ev.log[1].fault
    /\ ev.log[2].req = "wrap" /\ ev.log[2].ok
    /\ \E a \in ModAddrs(LIBB) : wrap_table[a] = SymName(LIBB, 1)

\* C8: load, unload, load, unload of one library leaves the hook set as it
\* was before the first load, and the hook set after the second load is the
\* one after the first load.
C8_LifecycleIdempotent ==
    /\ cyc.n >= 3 => cyc.h3 = cyc.h1
    /\ cyc.n = 4 => cyc.h4 = cyc.h0

\* C9: the unload pass does not abort on an export that has no wrap, in
\* debug builds either, and goes over the whole export table.
C9_UnloadTolerates ==
    InUnload =>
      /\ ev.pc # "aborted"
      /\ ev.pc = "returned" => Len(ev.log) = Len(ev.table)

\* C10: once the unload event of a library has returned, and until the
\* library is loaded again, a call of an address that was wrapped for it
\* prints no line.
C10_NoTraceAfterUnload ==
    \A m \in Libs :
      (m \notin loaded /\ last.called /\ <<last.name, last.func>> \in installed[m])
        => last.lines = <<>>

\* the line one invocation has written, if it has written one
Line == last.lines[1]

\* C11: every line is the prefix, then either a non-empty module name, one
\* "!" and the function name, or the function name alone: when the lookup of
\* the called address finds a module the line has the name of that module
\* and the separator, whatever dr_module_preferred_name returns for it; when
\* it finds none the line has neither; name and separator come together.
C11_LineFormat ==
    (last.called /\ last.lines # <<>>) =>
      /\ Len(last.lines) = 1
      /\ Line[1] = STDERR_PREFIX
      /\ Line[4] = last.name
      /\ (Line[2] = "") <=> (Line[3] = "")
      /\ Line[3] \in {"", "!"}
      /\ last.funcmod = NoMod => Line[3] = ""
      /\ last.funcmod # NoMod => (Line[2] # "" /\ Line[3] = "!")

\* a request of the pass that reported failure
Failed(r) == r.req # "none" /\ ~r.ok

\* the requests of the records of a pass that succeeded, applied one after
\* the other
RECURSIVE ReplayOk(_, _)
ReplayOk(recs, tbl) ==
    IF recs = <<>> THEN tbl
    ELSE LET r == Head(recs)
         IN  ReplayOk(Tail(recs),
                      IF r.req = "wrap" /\ r.ok THEN [tbl EXCEPT ![r.func] = r.name]
                      ELSE IF r.req = "unwrap" /\ r.ok THEN [tbl EXCEPT ![r.func] = NoWrap]
                      ELSE tbl)

\* C12: a wrap or unwrap request that reports failure aborts a debug build at
\* that request; a release build goes on over the rest of the export table,
\* and the wrap table is the one the successful requests alone produce, with
\* no wrap recorded for the module that was not installed.
C12_FailedRequest ==
    (ev.pc # "none") =>
      /\ \A i \in DOMAIN ev.log :
           Failed(ev.log[i]) =>
             IF DEBUG
             THEN ev.pc = "aborted" /\ phase = "aborted" /\ i = Len(ev.log)
             ELSE ev.pc # "aborted" /\ phase # "aborted"
      /\ (~DEBUG /\ ev.pc = "returned" /\ ~ev.skipped) => Len(ev.log) = Len(ev.table)
      /\ wrap_table = ReplayOk(ev.log, ev.before)
      /\ ev.add => \A e \in installed[ev.mod] : wrap_table[e[2]] # NoWrap

\* a release build has gone over the second export after the wrap request
\* for the first was refused
C12_Witness ==
    /\ ~DEBUG
    /\ LoadDone
    /\ Len(ev.log) = 2
    /\ Failed(ev.log[1])
    /\ ev.log[2].req = "wrap" /\ ev.log[2].ok

\* C15: no wrap is requested for an address that has a wrap: every wrap
\* request of a load pass is made for an address without one.
C15_NoDoubleInstall ==
    \A i \in DOMAIN ev.log : ev.log[i].req = "wrap" => ev.log[i].ok

\* the records of a pass that made a wrap request
Requested(r) == r.req = "wrap"

\* the address a load pass is to ask a wrap for at the i-th export, or NULL
Expected(i) ==
    LET s == ev.table[i]
        r == ev.log[i]
    IN  IF s.is_code THEN s.addr
        ELSE IF s.is_indirect_code /\ ~r.out.fault THEN r.out.ret
        ELSE NULL

\* C16: the wrap requests of a load pass are, in the order of the export
\* table, the address of each direct-code export and what the trampoline
\* returned for each indirect one that returned a non-null address; data
\* symbols and indirect exports that fault or return null have no request.
C16_InstallSequence ==
    InLoad =>
      /\ Len(ev.log) = ev.idx - 1
      /\ \A i \in DOMAIN ev.log :
           /\ ev.log[i].name = ev.table[i].name
           /\ (ev.log[i].req = "wrap") <=> (Expected(i) # NULL)
           /\ ev.log[i].req = "wrap" => ev.log[i].func = Expected(i)
           /\ ev.log[i].req # "unwrap"
      /\ Len(SelectSeq(ev.log, Requested))
           = Cardinality({i \in DOMAIN ev.log : Expected(i) # NULL})

\* a load pass has asked a wrap for what the trampoline of its first export
\* returned and none for its second export, a data symbol
C16_Witness ==
    /\ LoadDone
    /\ Len(ev.log) = 2
    /\ ev.table[1].is_indirect_code
    /\ ev.log[1].req = "wrap" /\ ev.log[1].func = ev.log[1].out.ret
    /\ ~ev.table[2].is_code /\ ~ev.table[2].is_indirect_code
    /\ ev.log[2].req = "none"

C14_ConfigWrittenOnce ==
    /\ [](phase = "start" => (Hooked = {} /\ loaded = {} /\ ev.pc = "none"))
    /\ [][phase # "start" => config' = config]_vars

\* a call has been intercepted under options other than the defaults
C14_Witness ==
    /\ phase = "running"
    /\ options.only_from_app
    /\ exe_start = ModBase(EXE)
    /\ Hooked # {}
    /\ last.called

\* C18: every module load and unload handler that has started its pass comes
\* to its end, whatever the trampoline of an indirect export does.
C18_HandlersComplete ==
    (ev.pc = "iter") ~> (ev.pc \in {"returned", "aborted"})

\* the libraries, other than the one of the event in progress, whose own load
\* event has returned and whose unload event has not begun
OtherLoaded == {b \in (loaded \cap Libs) : ev.pc = "none" \/ ev.mod # b}

\* C13: during and after a load or unload event of a module, a call of a
\* wrapped export of another loaded library writes what it would have written
\* before the event began, for every return address and module name.
C13_NoInterference ==
    (phase = "running" /\ ev.pc # "none") =>
      \A b \in OtherLoaded :
        \A e \in installed[b] :
          (e[2] \in ModAddrs(b) /\ ev.before[e[2]] = e[1]) =>
            \A ro \in RetaddrOutcomes : \A pn \in PreferredNames(b) :
              CallLines(wrap_table, e[2], ro, pn, loaded,
                        options.only_from_app, exe_start)
                = CallLines(ev.before, e[2], ro, pn, loaded,
                            options.only_from_app, exe_start)

\* C19: a library whose load event has returned and whose unload event has
\* not begun has a wrap at the address of each of its direct-code exports,
\* whatever the events of the other modules do.
C19_OtherModulesKeepHooks ==
    phase = "running" =>
      \A b \in OtherLoaded :
        \A i \in DOMAIN exports[b] :
          exports[b][i].is_code => wrap_table[exports[b][i].addr] # NoWrap

\* C20: the function name of every line is the name of an export, of a
\* library that is loaded, that was wrapped at the address called.
C20_NameMatchesAddress ==
    (last.called /\ last.lines # <<>>) =>
      \E m \in loaded \cap Libs : <<Line[4], last.func>> \in installed[m]

====
